---- MODULE Spec2Model ----
(***************************************************************************)
(* Dispatcher console (WelokkDev/dispatch): the client-side call store of  *)
(* App.tsx and the transcript revealer of CallDetailDrawer.  The state is  *)
(* the React state of App (calls, loading, error, selectedCall,            *)
(* drawerOpen), the EventSource connection opened by subscribeToEvents,    *)
(* and the state, the refs and the interval of the drawer (visibleCount,   *)
(* prevCallId, prevTranscriptLen, timers).  The actions are the completion *)
(* of the initial fetch, the SSE message handler handleEvent, the          *)
(* transport error handler, the two UI handlers of App, the interval       *)
(* callback of the drawer and the unmount of App.  The effects of the      *)
(* drawer run after the render that a handler causes and before the next   *)
(* handler, so they are part of the action of that handler.                *)
(*                                                                         *)
(* A Call is a record.  Of the fields of the Call type the model keeps the *)
(* ones a handler names (id, priority, incidentType, status,               *)
(* locationLabel, address, confidence, transcript, summary, aiHandling,    *)
(* pin), the optional statusDetail (so that object spread is a merge of    *)
(* records with different key sets) and numberMasked as the representative *)
(* of the fields that are only ever copied (incidentIcon, city,            *)
(* inServiceArea, keyFacts, elapsed).                                      *)
(***************************************************************************)
EXTENDS Integers, Sequences, FiniteSets, TLC

VARIABLES calls, loading, error, selectedCall, drawerOpen, esOpen, lastEv,
          mounted, visibleCount, prevCallId, prevTranscriptLen, timers

vars == <<calls, loading, error, selectedCall, drawerOpen, esOpen, lastEv,
          mounted, visibleCount, prevCallId, prevTranscriptLen, timers>>

\* the state and the refs of CallDetailDrawer
drawerVars == <<visibleCount, prevCallId, prevTranscriptLen, timers>>

(***************************************************************************)
(* Bounds and input sets.                                                  *)
(***************************************************************************)

\* new_message is not delivered to a transcript that already has this many messages
MaxTranscript == 2

\* the call ids the backend uses
Ids == {"c1", "c2"}

\* the value of a state cell holding JavaScript null (error)
Null == "null"

callerMsg == [sender |-> "caller", text |-> "there is a fire", time |-> "6:34"]

aiMsg == [sender |-> "ai", text |-> "911, what is your emergency?", time |-> "6:34"]

\* TranscriptMessage values carried by new_message events
Msgs == {aiMsg}

PinA == [lat |-> 47, lng |-> -122]

PinB == [lat |-> 48, lng |-> -121]

\* a call as the backend announces it when the line is picked up: nothing known yet
NewCall(id) ==
  [id |-> id, numberMasked |-> id, priority |-> "P3", incidentType |-> "Unknown",
   status |-> "queued", locationLabel |-> "", address |-> "", confidence |-> 0,
   transcript |-> <<>>, summary |-> "", aiHandling |-> TRUE, pin |-> PinA]

\* a call that has been triaged: every field differs from NewCall, statusDetail is present
TriagedCall(id) ==
  [id |-> id, numberMasked |-> id, priority |-> "P1", incidentType |-> "Fire",
   status |-> "active", statusDetail |-> "units dispatched",
   locationLabel |-> "Main St", address |-> "12 Main St", confidence |-> 80,
   transcript |-> <<callerMsg>>, summary |-> "structure fire", aiHandling |-> FALSE,
   pin |-> PinB]

\* the Call payloads of call_created events: either call as just picked up, and c1
\* once more after triage (a creation event repeated with later content)
CallPayloads == {NewCall(id) : id \in Ids} \cup {TriagedCall("c1")}

\* the keys of a Call that the Call type requires (statusDetail is optional)
RequiredFields ==
  {"id", "numberMasked", "priority", "incidentType", "status", "locationLabel",
   "address", "confidence", "transcript", "summary", "aiHandling", "pin"}

\* a call as a backend that lost a column sends it: NewCall without numberMasked, a
\* required key that no handler reads
MalformedCall(id) ==
  [k \in RequiredFields \ {"numberMasked"} |-> NewCall(id)[k]]

\* results of GET /api/calls: no call, one call, two calls, and a call with a
\* required key missing (fetchCalls returns response.json() as it is)
FetchResults ==
  { <<>>,
    <<TriagedCall("c1")>>,
    <<NewCall("c2"), TriagedCall("c1")>>,
    <<MalformedCall("c2")>> }

FetchErrors == {"Failed to fetch calls: Internal Server Error"}

\* the optional fields of a transcript_update event
OptionalFields == {"priority", "incidentType", "locationLabel", "pin", "confidence"}

\* the optional parts of transcript_update events: none present, and two partial ones
\* that together carry every optional field (the empty string is a value of
\* locationLabel, not an absent field)
Patches ==
  { [k \in {} |-> Null],
    [priority |-> "P1", incidentType |-> "Fire"],
    [locationLabel |-> "", pin |-> PinB, confidence |-> 80] }

\* the patches sent for a call: c1 gets every patch, c2 only the one without
\* optional fields
PatchesFor(id) == IF id = "c1" THEN Patches ELSE {[k \in {} |-> Null]}

\* the transcripts carried by transcript_update events: the empty one and the
\* canonical one that starts with the intro message
UpdateTranscripts == { <<>>, <<aiMsg, callerMsg>> }

\* the (status, aiHandling) pairs carried by transcript_update events
StatusPairs == { [status |-> "ended", aiHandling |-> FALSE] }

(***************************************************************************)
(* Object spread { ...c, ...e }: the keys of both, e's value where e has   *)
(* the key.                                                                *)
(***************************************************************************)
Merge(c, e) ==
  [k \in (DOMAIN c) \cup (DOMAIN e) |-> IF k \in DOMAIN e THEN e[k] ELSE c[k]]

(***************************************************************************)
(* The events of the SSEEvent union.                                       *)
(***************************************************************************)
CallCreatedEvents == {[type |-> "call_created", call |-> c] : c \in CallPayloads}

NewMessageEvents ==
  {[type |-> "new_message", call_id |-> id, message |-> m] : id \in Ids, m \in Msgs}

TranscriptUpdateEvents ==
  UNION { {Merge([type |-> "transcript_update", call_id |-> id, transcript |-> t,
                  status |-> s.status, aiHandling |-> s.aiHandling], p) :
             t \in UpdateTranscripts, s \in StatusPairs, p \in PatchesFor(id)} :
          id \in Ids }

SummaryUpdateEvents ==
  {[type |-> "summary_update", call_id |-> id, summary |-> "caller reports a fire"] :
     id \in Ids}

SSEEvent ==
  CallCreatedEvents \cup NewMessageEvents \cup TranscriptUpdateEvents
    \cup SummaryUpdateEvents

\* lastEv when the last step was not the delivery of an event
NoEvent == [type |-> "none"]

(***************************************************************************)
(* handleEvent, one operator per setState updater.                         *)
(***************************************************************************)

\* ev.field != null
Present(ev, field) == field \in DOMAIN ev /\ ev[field] # Null

\* call_created without the exists test: the event's call is always put in front
ApplyCallCreated_AlwaysPrepend(prev, ev) == <<ev.call>> \o prev

\* call_created that moves a call that exists to the front when it merges it
ApplyCallCreated_MoveToFront(prev, ev) ==
  LET hits == SelectSeq(prev, LAMBDA c : c.id = ev.call.id)
      rest == SelectSeq(prev, LAMBDA c : c.id # ev.call.id)
  IN  IF hits = <<>> THEN <<ev.call>> \o prev
      ELSE <<Merge(hits[1], ev.call)>> \o rest

\* call_created that puts a call that does not exist behind the others
ApplyCallCreated_Append(prev, ev) ==
  LET exists == \E i \in 1..Len(prev) : prev[i].id = ev.call.id
      merged(c) == IF c.id = ev.call.id THEN Merge(c, ev.call) ELSE c
  IN  IF exists THEN [i \in 1..Len(prev) |-> merged(prev[i])] ELSE prev \o <<ev.call>>

\* setCalls updater of the call_created branch (prev.map is the function over 1..Len(prev))
ApplyCallCreated(prev, ev) ==
  LET exists == \E i \in 1..Len(prev) : prev[i].id = ev.call.id
      merged(c) == IF c.id = ev.call.id THEN Merge(c, ev.call) ELSE c
  IN  IF exists THEN [i \in 1..Len(prev) |-> merged(prev[i])] ELSE <<ev.call>> \o prev

\* new_message without the empty-transcript test
AppendMessage_NoGate(c, ev) ==
  IF c.id # ev.call_id THEN c
  ELSE [c EXCEPT !.transcript = Append(c.transcript, ev.message)]

\* the per-call function of the new_message branch, shared by both updaters
AppendMessage(c, ev) ==
  IF c.id # ev.call_id THEN c
  ELSE IF Len(c.transcript) = 0 THEN c
  ELSE Merge(c, [transcript |-> Append(c.transcript, ev.message)])

\* setCalls updater of the new_message branch
ApplyNewMessage(prev, ev) ==
  LET f(c) == AppendMessage(c, ev) IN [i \in 1..Len(prev) |-> f(prev[i])]

\* the update object with the optional fields copied whether present or not
Update_Unconditional(ev) ==
  LET get(f) == IF f \in DOMAIN ev THEN ev[f] ELSE Null
  IN  [transcript |-> ev.transcript, status |-> ev.status,
       aiHandling |-> ev.aiHandling, priority |-> get("priority"),
       incidentType |-> get("incidentType"), locationLabel |-> get("locationLabel"),
       address |-> get("locationLabel")]

\* the update object built by the transcript_update branch
Update(ev) ==
  LET base == [transcript |-> ev.transcript, status |-> ev.status,
               aiHandling |-> ev.aiHandling]
      p1 == IF Present(ev, "priority")
              THEN Merge(base, [priority |-> ev.priority]) ELSE base
      p2 == IF Present(ev, "incidentType")
              THEN Merge(p1, [incidentType |-> ev.incidentType]) ELSE p1
      p3 == IF Present(ev, "locationLabel")
              THEN Merge(p2, [locationLabel |-> ev.locationLabel,
                              address |-> ev.locationLabel])
              ELSE p2
  IN  p3

\* transcript_update applied to a call whatever its id
PatchCall_NoIdCheck(c, ev) == Merge(c, Update(ev))

\* transcript_update that keeps the old transcript when the event's is shorter
PatchCall_KeepLonger(c, ev) ==
  IF c.id # ev.call_id THEN c
  ELSE IF Len(ev.transcript) < Len(c.transcript)
         THEN Merge(c, [Update(ev) EXCEPT !.transcript = c.transcript])
         ELSE Merge(c, Update(ev))

\* the per-call function of the transcript_update branch, shared by both updaters
PatchCall(c, ev) == IF c.id = ev.call_id THEN Merge(c, Update(ev)) ELSE c

\* transcript_update whose updater patches every call of the collection
ApplyTranscriptUpdate_All(prev, ev) ==
  LET f(c) == Merge(c, Update(ev)) IN [i \in 1..Len(prev) |-> f(prev[i])]

\* setCalls updater of the transcript_update branch
ApplyTranscriptUpdate(prev, ev) ==
  LET f(c) == PatchCall(c, ev) IN [i \in 1..Len(prev) |-> f(prev[i])]

\* what handleEvent makes of calls: summary_update matches no branch
HandleEventCalls(prev, ev) ==
  CASE ev.type = "call_created" -> ApplyCallCreated(prev, ev)
    [] ev.type = "new_message" -> ApplyNewMessage(prev, ev)
    [] ev.type = "transcript_update" -> ApplyTranscriptUpdate(prev, ev)
    [] OTHER -> prev

\* what handleEvent makes of selectedCall (a sequence of zero or one Call: null or a Call)
HandleEventSelected(prev, ev) ==
  CASE ev.type = "new_message" ->
         IF prev = <<>> \/ prev[1].id # ev.call_id THEN prev
         ELSE <<AppendMessage(prev[1], ev)>>
    [] ev.type = "transcript_update" ->
         IF prev # <<>> /\ prev[1].id = ev.call_id
           THEN <<Merge(prev[1], Update(ev))>> ELSE prev
    [] OTHER -> prev

(***************************************************************************)
(* CallDetailDrawer.  The drawer is given call = selectedCall (a sequence  *)
(* of zero or one Call).  A drawer state is a record [vc, pid, plen] of    *)
(* visibleCount, prevCallIdRef.current and prevTranscriptLenRef.current.   *)
(***************************************************************************)

\* call?.id
CallId(sel) == IF sel = <<>> THEN Null ELSE sel[1].id

\* const transcript = call?.transcript ?? []
TranscriptOf(sel) == IF sel = <<>> THEN <<>> ELSE sel[1].transcript

\* const firstSender = transcript[0]?.sender ?? null
FirstSender(sel) ==
  IF TranscriptOf(sel) = <<>> THEN Null ELSE TranscriptOf(sel)[1].sender

\* the dependency list of the first effect
Deps(sel, vc) == <<CallId(sel), Len(TranscriptOf(sel)), FirstSender(sel), vc>>

\* the dependency list of the second effect
TimerDeps(sel, vc) == <<CallId(sel), Len(TranscriptOf(sel)), vc>>

\* the first effect without the prefix-replacement branch
RevealEffect_NoReset(sel, d) ==
  IF sel = <<>> THEN d
  ELSE IF d.pid # CallId(sel)
         THEN [vc |-> Len(TranscriptOf(sel)), pid |-> CallId(sel),
               plen |-> Len(TranscriptOf(sel))]
  ELSE [pid |-> CallId(sel), plen |-> Len(TranscriptOf(sel)), vc |-> d.vc]

\* the first effect with a call switch that starts the reveal from the first message
RevealEffect_SwitchFromZero(sel, d) ==
  IF sel = <<>> THEN d
  ELSE IF d.pid # CallId(sel)
         THEN [vc |-> 0, pid |-> CallId(sel), plen |-> Len(TranscriptOf(sel))]
  ELSE [pid |-> CallId(sel),
        plen |-> Len(TranscriptOf(sel)),
        vc |-> IF /\ Len(TranscriptOf(sel)) >= 2
                  /\ FirstSender(sel) = "ai"
                  /\ d.vc = 1
                  /\ d.plen = 1
                 THEN 0 ELSE d.vc]

\* one run of the body of the first effect (call switch, prefix replacement)
RevealEffect(sel, d) ==
  IF sel = <<>> THEN d
  ELSE IF d.pid # CallId(sel)
         THEN [vc |-> Len(TranscriptOf(sel)), pid |-> CallId(sel),
               plen |-> Len(TranscriptOf(sel))]
  ELSE [pid |-> CallId(sel),
        plen |-> Len(TranscriptOf(sel)),
        vc |-> IF /\ Len(TranscriptOf(sel)) >= 2
                  /\ FirstSender(sel) = "ai"
                  /\ d.vc = 1
                  /\ d.plen = 1
                 THEN 0 ELSE d.vc]

\* the first effect run again for as long as a run changes visibleCount (a
\* dependency), which it does at most twice
RECURSIVE Settle(_, _, _)
Settle(sel, d, n) ==
  LET e == RevealEffect(sel, d)
  IN  IF e.vc = d.vc \/ n = 0 THEN e ELSE Settle(sel, e, n - 1)

\* the drawer state after the render that follows a change of call from sel0 to
\* sel1 or of visibleCount from vc0 to d.vc: the first effect runs when one of
\* its dependencies changed
AfterRender(sel0, vc0, sel1, d) ==
  IF Deps(sel1, d.vc) = Deps(sel0, vc0) THEN d ELSE Settle(sel1, d, 2)

\* if (!call || transcript.length <= visibleCount) return; ... setInterval
TimerWanted(sel, vc) == sel # <<>> /\ Len(TranscriptOf(sel)) > vc

\* the second effect without its cleanup: an interval once started stays live
AfterTimerEffect_NoCleanup(t, sel0, vc0, sel1, vc1) ==
  IF TimerDeps(sel1, vc1) = TimerDeps(sel0, vc0) THEN t
  ELSE t + (IF TimerWanted(sel1, vc1) THEN 1 ELSE 0)

\* the live intervals after the second effect: when a dependency changed, the
\* cleanup clears the interval the last run started and the body may start one
AfterTimerEffect(t, sel0, vc0, sel1, vc1) ==
  IF TimerDeps(sel1, vc1) = TimerDeps(sel0, vc0) THEN t
  ELSE (IF t > 0 THEN t - 1 ELSE t) + (IF TimerWanted(sel1, vc1) THEN 1 ELSE 0)

\* the drawer variables after a handler changed selectedCall to sel1 and
\* visibleCount to vc1
DrawerRenders(sel1, vc1) ==
  LET d0 == [vc |-> vc1, pid |-> prevCallId, plen |-> prevTranscriptLen]
      d1 == AfterRender(selectedCall, visibleCount, sel1, d0)
  IN  /\ visibleCount' = d1.vc
      /\ prevCallId' = d1.pid
      /\ prevTranscriptLen' = d1.plen
      /\ timers' = AfterTimerEffect(timers, selectedCall, visibleCount, sel1, d1.vc)

(***************************************************************************)
(* State after the first render and the two mount effects: the fetch is    *)
(* in flight (loading), the EventSource is open.                           *)
(***************************************************************************)
Init ==
  /\ calls = <<>>
  /\ loading = TRUE
  /\ error = Null
  /\ selectedCall = <<>>
  /\ drawerOpen = FALSE
  /\ esOpen = TRUE
  /\ lastEv = NoEvent
  /\ mounted = TRUE
  /\ visibleCount = 0
  /\ prevCallId = Null
  /\ prevTranscriptLen = 0
  /\ timers = 0

\* loadCalls, fetchCalls resolved: setCalls(data), finally setLoading(false)
FetchResolve(data) ==
  /\ mounted
  /\ loading
  /\ calls' = data
  /\ loading' = FALSE
  /\ lastEv' = [type |-> "fetched", data |-> data]
  /\ UNCHANGED <<error, selectedCall, drawerOpen, esOpen, mounted, drawerVars>>

\* loadCalls, fetchCalls threw: setError(message), finally setLoading(false)
FetchReject(msg) ==
  /\ mounted
  /\ loading
  /\ error' = msg
  /\ loading' = FALSE
  /\ lastEv' = NoEvent
  /\ UNCHANGED <<calls, selectedCall, drawerOpen, esOpen, mounted, drawerVars>>

\* the transcripts the event would append to are below the bound
BelowBound(ev) ==
  ev.type = "new_message" =>
    /\ \A i \in 1..Len(calls) :
         calls[i].id = ev.call_id => Len(calls[i].transcript) < MaxTranscript
    /\ \A i \in 1..Len(selectedCall) :
         selectedCall[i].id = ev.call_id
           => Len(selectedCall[i].transcript) < MaxTranscript

\* a message handler that stays attached to a closed connection
HandleEvent_AfterClose(ev) ==
  /\ mounted
  /\ BelowBound(ev)
  /\ calls' = HandleEventCalls(calls, ev)
  /\ selectedCall' = HandleEventSelected(selectedCall, ev)
  /\ lastEv' = ev
  /\ DrawerRenders(HandleEventSelected(selectedCall, ev), visibleCount)
  /\ UNCHANGED <<loading, error, drawerOpen, esOpen, mounted>>

\* es.onmessage with a well-formed payload: handleEvent(ev)
HandleEvent(ev) ==
  /\ esOpen
  /\ BelowBound(ev)
  /\ calls' = HandleEventCalls(calls, ev)
  /\ selectedCall' = HandleEventSelected(selectedCall, ev)
  /\ lastEv' = ev
  /\ DrawerRenders(HandleEventSelected(selectedCall, ev), visibleCount)
  /\ UNCHANGED <<loading, error, drawerOpen, esOpen, mounted>>

\* es.onerror: es.close()
EsError ==
  /\ esOpen
  /\ esOpen' = FALSE
  /\ lastEv' = NoEvent
  /\ UNCHANGED <<calls, loading, error, selectedCall, drawerOpen, mounted, drawerVars>>

\* the list and the map are rendered once loading is false and error is null
ListRendered == mounted /\ ~loading /\ error = Null

\* handleSelectCall(call), from a card of CallList or a marker of MapPanel
SelectCall(i) ==
  /\ ListRendered
  /\ i \in 1..Len(calls)
  /\ selectedCall' = <<calls[i]>>
  /\ drawerOpen' = TRUE
  /\ lastEv' = NoEvent
  /\ DrawerRenders(<<calls[i]>>, visibleCount)
  /\ UNCHANGED <<calls, loading, error, esOpen, mounted>>

\* handleCloseDrawer
CloseDrawer ==
  /\ ListRendered
  /\ drawerOpen
  /\ drawerOpen' = FALSE
  /\ lastEv' = NoEvent
  /\ UNCHANGED <<calls, loading, error, selectedCall, esOpen, mounted, drawerVars>>

\* Math.max where Math.min is meant
Min_Max(a, b) == IF a <= b THEN b ELSE a

\* Math.min(prev + 1, transcript.length)
Min(a, b) == IF a <= b THEN a ELSE b

\* the interval callback: setVisibleCount((prev) => Math.min(prev + 1, transcript.length))
Tick ==
  /\ mounted
  /\ timers > 0
  /\ DrawerRenders(selectedCall, Min(visibleCount + 1, Len(TranscriptOf(selectedCall))))
  /\ lastEv' = [type |-> "tick"]
  /\ UNCHANGED <<calls, loading, error, selectedCall, drawerOpen, esOpen, mounted>>

\* App unmounts: the cleanup of subscribeToEvents closes the connection, the cleanup
\* of the drawer's second effect clears its interval
Unmount ==
  /\ mounted
  /\ mounted' = FALSE
  /\ esOpen' = FALSE
  /\ timers' = 0
  /\ lastEv' = NoEvent
  /\ UNCHANGED <<calls, loading, error, selectedCall, drawerOpen, visibleCount,
                 prevCallId, prevTranscriptLen>>

Next ==
  \/ \E data \in FetchResults : FetchResolve(data)
  \/ \E msg \in FetchErrors : FetchReject(msg)
  \/ \E ev \in SSEEvent : HandleEvent(ev)
  \/ EsError
  \/ \E i \in 1..Len(calls) : SelectCall(i)
  \/ CloseDrawer
  \/ Tick
  \/ Unmount

Spec == Init /\ [][Next]_vars

\* the interval of the second effect fires as long as it is live: a step of Tick
\* that stays enabled is taken
SpecLive == Spec /\ WF_vars(Tick)

\* the transcripts of transcript_update events for the revealer: those of
\* UpdateTranscripts and the intro message alone
IntroTranscripts == UpdateTranscripts \cup { <<aiMsg>> }

\* the events for the revealer: transcript_update without optional fields, with
\* every transcript of IntroTranscripts
RevealEvents ==
  CallCreatedEvents \cup NewMessageEvents \cup
  {[type |-> "transcript_update", call_id |-> id, transcript |-> t,
    status |-> s.status, aiHandling |-> s.aiHandling] :
      id \in Ids, t \in IntroTranscripts, s \in StatusPairs}

\* the steps of Next, its events drawn from RevealEvents
NextReveal ==
  \/ \E data \in FetchResults : FetchResolve(data)
  \/ \E msg \in FetchErrors : FetchReject(msg)
  \/ \E ev \in RevealEvents : HandleEvent(ev)
  \/ EsError
  \/ \E i \in 1..Len(calls) : SelectCall(i)
  \/ CloseDrawer
  \/ Tick
  \/ Unmount

SpecReveal == Init /\ [][NextReveal]_vars

(***************************************************************************)
(* Properties of the call store.  A step that delivers an event leaves the *)
(* event in lastEv, so an action formula reads the event from lastEv', the *)
(* collection before from calls and the collection after from calls'.      *)
(***************************************************************************)

\* the ids of a collection
IdsOf(cs) == {cs[i].id : i \in 1..Len(cs)}

\* the record of a collection with the given id (the first one)
Find(cs, id) == cs[CHOOSE i \in 1..Len(cs) : cs[i].id = id]

\* this step delivers an event of one of the given types
Delivers(types) == lastEv' \in SSEEvent /\ lastEv'.type \in types

\* C1 (idempotent creation): in every reachable collection, for every call_created
\* event e, handling e twice gives the same collection, record for record and
\* position for position, as handling e once, whether or not e's id was present.
C1_IdempotentCreation ==
  \A ev \in CallCreatedEvents :
    HandleEventCalls(HandleEventCalls(calls, ev), ev) = HandleEventCalls(calls, ev)

\* C1 witness: a call_created event for c1 has just been merged into an existing
\* record (the record keeps statusDetail, which the event does not carry), and c2
\* is absent, so both cases of the claim are events of this state.
C1_Witness ==
  /\ lastEv = [type |-> "call_created", call |-> NewCall("c1")]
  /\ Len(calls) = 1
  /\ calls[1].id = "c1"
  /\ "statusDetail" \in DOMAIN calls[1]
  /\ calls[1].status = "queued"

\* C2 (upsert by id): a call_created step with an absent id puts the event's call
\* in front of the previous collection; with a present id it keeps the length and
\* the order of ids, leaves every record with another id as it was, and makes the
\* record with that id the old record with the event's fields written over it.
C2_Upsert ==
  [][Delivers({"call_created"}) =>
       LET c == lastEv'.call IN
         IF c.id \notin IdsOf(calls)
           THEN /\ Len(calls') = Len(calls) + 1
                /\ calls'[1] = c
                /\ \A i \in 1..Len(calls) : calls'[i + 1] = calls[i]
           ELSE /\ Len(calls') = Len(calls)
                /\ \A i \in 1..Len(calls) :
                     /\ calls'[i].id = calls[i].id
                     /\ calls[i].id # c.id => calls'[i] = calls[i]
                     /\ calls[i].id = c.id =>
                          /\ DOMAIN calls'[i] = (DOMAIN calls[i]) \cup (DOMAIN c)
                          /\ \A k \in DOMAIN c : calls'[i][k] = c[k]
                          /\ \A k \in (DOMAIN calls[i]) \ (DOMAIN c) :
                               calls'[i][k] = calls[i][k]]_vars

\* C2 witness: a repeated creation of c1 has been merged into the second position
\* of a two-call collection.
C2_Witness ==
  /\ lastEv = [type |-> "call_created", call |-> NewCall("c1")]
  /\ Len(calls) = 2
  /\ calls[1].id = "c2"
  /\ calls[2].id = "c1"
  /\ "statusDetail" \in DOMAIN calls[2]
  /\ calls[2].transcript = <<>>

\* C3 (no-op on unknown id): a new_message, transcript_update or summary_update
\* step whose call_id is the id of no call of the collection changes neither the
\* collection nor the selected call, and sets no error.
C3_UnknownIdNoOp ==
  [][(/\ Delivers({"new_message", "transcript_update", "summary_update"})
      /\ lastEv'.call_id \notin IdsOf(calls))
       => /\ calls' = calls
          /\ selectedCall' = selectedCall
          /\ error' = error]_vars

\* C3 witness: a transcript_update for an id that is not in the collection has been
\* delivered while another call is in the collection and selected.
C3_Witness ==
  /\ lastEv \in TranscriptUpdateEvents
  /\ lastEv.call_id \notin IdsOf(calls)
  /\ calls # <<>>
  /\ selectedCall # <<>>

\* C4 (append gating): a new_message step leaves an empty transcript of the
\* matching call empty, and extends a non-empty one by exactly the event's
\* message, the old messages staying where they were.
C4_AppendGating ==
  [][Delivers({"new_message"}) =>
       /\ Len(calls') = Len(calls)
       /\ \A i \in 1..Len(calls) :
            calls[i].id = lastEv'.call_id =>
              LET old == calls[i].transcript
                  new == calls'[i].transcript
              IN  IF Len(old) = 0
                    THEN Len(new) = 0
                    ELSE /\ Len(new) = Len(old) + 1
                         /\ new[Len(new)] = lastEv'.message
                         /\ \A j \in 1..Len(old) : new[j] = old[j]]_vars

\* C4 witness: a new_message has been appended behind the caller's message of a
\* call of the collection.
C4_Witness ==
  /\ lastEv \in NewMessageEvents
  /\ lastEv.call_id \in IdsOf(calls)
  /\ Find(calls, lastEv.call_id).transcript = <<callerMsg, lastEv.message>>

\* C5 (full replace): after a transcript_update step the matching call's transcript
\* is the event's transcript, whatever it was before, and its status and aiHandling
\* are the event's.
C5_FullReplace ==
  [][Delivers({"transcript_update"}) =>
       /\ Len(calls') = Len(calls)
       /\ \A i \in 1..Len(calls) :
            calls[i].id = lastEv'.call_id =>
              /\ calls'[i].transcript = lastEv'.transcript
              /\ calls'[i].status = lastEv'.status
              /\ calls'[i].aiHandling = lastEv'.aiHandling]_vars

\* C5 witness: a transcript_update with an empty transcript has emptied the
\* transcript of c1, which was fetched (or created) with one message.
C5_Witness ==
  /\ lastEv \in TranscriptUpdateEvents
  /\ lastEv.transcript = <<>>
  /\ lastEv.call_id = "c1"
  /\ "c1" \in IdsOf(calls)
  /\ "statusDetail" \in DOMAIN Find(calls, "c1")
  /\ Find(calls, "c1").transcript = <<>>
  /\ Find(calls, "c1").status = "ended"

\* C6 (optional fields that are present): after a transcript_update step, every
\* optional field the event carries (priority, incidentType, locationLabel, pin,
\* confidence) has the event's value in the matching call.
C6_PresentFieldsWritten ==
  [][Delivers({"transcript_update"}) =>
       \A i \in 1..Len(calls) :
         calls[i].id = lastEv'.call_id =>
           \A f \in OptionalFields \cap DOMAIN lastEv' :
             calls'[i][f] = lastEv'[f]]_vars

\* C7 (frame of transcript_update): a transcript_update step keeps the length and
\* the order of the collection, leaves every other call as it was, and in the
\* matching call keeps the id, the summary and every optional field the event
\* does not carry.
C7_UpdateFrame ==
  [][Delivers({"transcript_update"}) =>
       /\ Len(calls') = Len(calls)
       /\ \A i \in 1..Len(calls) :
            /\ calls'[i].id = calls[i].id
            /\ calls[i].id # lastEv'.call_id => calls'[i] = calls[i]
            /\ calls[i].id = lastEv'.call_id =>
                 /\ calls'[i].summary = calls[i].summary
                 /\ \A f \in OptionalFields \ DOMAIN lastEv' :
                      calls'[i][f] = calls[i][f]]_vars

\* C7 witness: a transcript_update that carries locationLabel, pin and confidence
\* but neither priority nor incidentType has been applied to c1 while c2 is in
\* the collection too.
C7_Witness ==
  /\ lastEv \in TranscriptUpdateEvents
  /\ "locationLabel" \in DOMAIN lastEv
  /\ "priority" \notin DOMAIN lastEv
  /\ lastEv.call_id = "c1"
  /\ IdsOf(calls) = {"c1", "c2"}
  /\ Find(calls, "c1").priority = "P1"
  /\ Find(calls, "c1").locationLabel = ""
  /\ Find(calls, "c1").status = "ended"

\* C8 (summary_update): after a summary_update step the matching call's summary is
\* the event's summary, and nothing else in the collection has changed.
C8_SummaryWritten ==
  [][Delivers({"summary_update"}) =>
       /\ Len(calls') = Len(calls)
       /\ \A i \in 1..Len(calls) :
            /\ calls[i].id # lastEv'.call_id => calls'[i] = calls[i]
            /\ calls[i].id = lastEv'.call_id =>
                 /\ calls'[i].summary = lastEv'.summary
                 /\ \A k \in (DOMAIN calls[i]) \ {"summary"} :
                      calls'[i][k] = calls[i][k]]_vars

\* the length of the transcript of the call with the given id does not decrease
\* in this step
TranscriptKept(id) ==
  /\ id \in IdsOf(calls')
  /\ Len(Find(calls', id).transcript) >= Len(Find(calls, id).transcript)

\* C9 as claimed (transcript monotonicity): in a step that delivers an event, the
\* transcript of a call of the collection does not get shorter unless the event is
\* a transcript_update for that call.
C9_MonotoneExceptUpdate ==
  [][Delivers({"call_created", "new_message", "transcript_update", "summary_update"})
       => \A id \in IdsOf(calls) :
            ~(lastEv'.type = "transcript_update" /\ lastEv'.call_id = id)
              => TranscriptKept(id)]_vars

\* C9 as amended: in a step that delivers an event, the transcript of a call of the
\* collection does not get shorter unless the event is a transcript_update for
\* that call or a call_created whose call has that call's id.
C9_MonotoneExceptUpdateOrCreate ==
  [][Delivers({"call_created", "new_message", "transcript_update", "summary_update"})
       => \A id \in IdsOf(calls) :
            (/\ ~(lastEv'.type = "transcript_update" /\ lastEv'.call_id = id)
             /\ ~(lastEv'.type = "call_created" /\ lastEv'.call.id = id))
              => TranscriptKept(id)]_vars

\* C9 witness: a transcript_update with an empty transcript has been applied to c2
\* while c1, in the same collection, has a transcript of two messages.
C9_Witness ==
  /\ lastEv \in TranscriptUpdateEvents
  /\ lastEv.call_id = "c2"
  /\ lastEv.transcript = <<>>
  /\ IdsOf(calls) = {"c1", "c2"}
  /\ Find(calls, "c2").transcript = <<>>
  /\ Len(Find(calls, "c1").transcript) = 2

\* C10 (no deletion): an id that is in the collection is in the collection after
\* every step, the completion of the initial fetch included.
C10_NoDeletion ==
  [][\A id \in IdsOf(calls) : id \in IdsOf(calls')]_vars

(***************************************************************************)
(* Properties of loading, of the order of creation and of the revealer.    *)
(***************************************************************************)

\* C11 (unique ids): no two entries of the collection have the same id (every
\* fetch result of the model has pairwise distinct ids).
C11_UniqueIds ==
  \A i, j \in 1..Len(calls) : calls[i].id = calls[j].id => i = j

\* C11 witness: a call_created for c1 has been delivered while c1 was in the
\* collection behind c2, and the collection still has two entries.
C11_Witness ==
  /\ lastEv = [type |-> "call_created", call |-> TriagedCall("c1")]
  /\ Len(calls) = 2
  /\ calls[1].id = "c2"
  /\ calls[2].id = "c1"

\* a Call with every required key, and every message of it with sender, text, time
ValidCall(c) ==
  /\ RequiredFields \subseteq DOMAIN c
  /\ \A j \in 1..Len(c.transcript) :
       {"sender", "text", "time"} \subseteq DOMAIN c.transcript[j]

\* C12 (Initialize validation): when the fetch resolves with a sequence that holds
\* a call with a required field missing, the collection is not replaced and the
\* load error is set.
C12_InvalidFetchRejected ==
  [][(/\ lastEv'.type = "fetched"
      /\ \E i \in 1..Len(lastEv'.data) : ~ValidCall(lastEv'.data[i]))
       => /\ calls' = calls
          /\ error' # Null]_vars

\* the ids of a collection in display order
IdOrder(cs) == [i \in 1..Len(cs) |-> cs[i].id]

\* the collection that call_created for c2 makes of the empty collection, with that
\* event as the last one delivered
OnlyC2Created ==
  /\ calls = <<NewCall("c2")>>
  /\ lastEv = [type |-> "call_created", call |-> NewCall("c2")]

\* C13 as claimed (creation order): call_created for c2 and then call_created for
\* c1, applied to the empty collection, give the order [c2, c1].
C13_OrderC2C1 ==
  [][(OnlyC2Created /\ Delivers({"call_created"}) /\ lastEv'.call.id = "c1")
       => IdOrder(calls') = <<"c2", "c1">>]_vars

\* C13 as amended: call_created for c2 and then call_created for c1, applied to the
\* empty collection, give the order [c1, c2], the call created last in front.
C13_OrderC1C2 ==
  [][(OnlyC2Created /\ Delivers({"call_created"}) /\ lastEv'.call.id = "c1")
       => IdOrder(calls') = <<"c1", "c2">>]_vars

\* C13 witness: c1 has been created in front of the c2 created before it.
C13_Witness ==
  /\ lastEv = [type |-> "call_created", call |-> NewCall("c1")]
  /\ calls = <<NewCall("c1"), NewCall("c2")>>

\* the drawer tracks the call it is given
Tracking == selectedCall # <<>> /\ prevCallId = CallId(selectedCall)

\* C14 (cursor bound): while a call is tracked, visibleCount is between 0 and the
\* length of that call's transcript.
C14_CursorBound ==
  Tracking =>
    /\ 0 <= visibleCount
    /\ visibleCount <= Len(TranscriptOf(selectedCall))

\* the condition of the prefix-replacement branch, on the transcript after the step
\* and the cursor and the recorded length before it
ResetTrigger ==
  /\ Len(TranscriptOf(selectedCall')) >= 2
  /\ FirstSender(selectedCall') = "ai"
  /\ visibleCount = 1
  /\ prevTranscriptLen = 1

\* C15 (reveal step): in a step that leaves the tracked call the same,
\* visibleCount stays, or goes up by exactly 1 in a tick taken below the
\* transcript length, or goes to 0 under the prefix-replacement condition.
C15_RevealStep ==
  [][(prevCallId # Null /\ prevCallId' = prevCallId) =>
       \/ visibleCount' = visibleCount
       \/ /\ visibleCount' = visibleCount + 1
          /\ lastEv'.type = "tick"
          /\ visibleCount < Len(TranscriptOf(selectedCall))
          /\ visibleCount' <= Len(TranscriptOf(selectedCall'))
       \/ /\ visibleCount' = 0
          /\ ResetTrigger]_vars

\* C15 witness: a tick has shown the second message of a tracked transcript of two.
C15_Witness ==
  /\ lastEv = [type |-> "tick"]
  /\ Tracking
  /\ visibleCount = 2
  /\ Len(TranscriptOf(selectedCall)) = 2

\* C16 (prefix-replacement reset): when the tracked transcript is one caller
\* message, shown, and a transcript_update replaces it by [ai message, caller
\* message], visibleCount becomes 0 and the recorded length 2; and every tick on
\* that transcript moves visibleCount up by 1 (to 1, then to 2) and leaves the
\* recorded length 2, so there is no second reset.
C16_PrefixReset ==
  [][/\ (/\ Tracking
         /\ TranscriptOf(selectedCall) = <<callerMsg>>
         /\ visibleCount = 1
         /\ prevTranscriptLen = 1
         /\ Delivers({"transcript_update"})
         /\ lastEv'.call_id = prevCallId
         /\ lastEv'.transcript = <<aiMsg, callerMsg>>)
          => /\ visibleCount' = 0
             /\ prevTranscriptLen' = 2
             /\ timers' = 1
     /\ (/\ Tracking
         /\ TranscriptOf(selectedCall) = <<aiMsg, callerMsg>>
         /\ lastEv'.type = "tick")
          => /\ visibleCount' = visibleCount + 1
             /\ prevTranscriptLen' = 2]_vars

\* C16 witness: a transcript_update to [ai message, caller message] has just been
\* applied to the tracked call c1, which came with the caller's message alone, and
\* the reveal is back at 0 with the interval running.
C16_Witness ==
  /\ lastEv \in TranscriptUpdateEvents
  /\ lastEv.call_id = "c1"
  /\ lastEv.transcript = <<aiMsg, callerMsg>>
  /\ Tracking
  /\ prevCallId = "c1"
  /\ "statusDetail" \in DOMAIN selectedCall[1]
  /\ TranscriptOf(selectedCall) = <<aiMsg, callerMsg>>
  /\ visibleCount = 0
  /\ prevTranscriptLen = 2
  /\ timers = 1

\* C17 (call switch): a step that gives the drawer a call whose id is not the
\* tracked one (the first call opened included) makes that id the tracked one,
\* records the length of its transcript and shows all of it, with no interval
\* started.
C17_CallSwitch ==
  [][(selectedCall' # <<>> /\ CallId(selectedCall') # prevCallId) =>
       /\ prevCallId' = CallId(selectedCall')
       /\ prevTranscriptLen' = Len(TranscriptOf(selectedCall'))
       /\ visibleCount' = Len(TranscriptOf(selectedCall'))
       /\ timers' = 0]_vars

\* C17 witness: c2 has just been opened with its transcript of two messages shown
\* in full.
C17_Witness ==
  /\ lastEv = NoEvent
  /\ drawerOpen
  /\ Tracking
  /\ prevCallId = "c2"
  /\ Len(TranscriptOf(selectedCall)) = 2
  /\ visibleCount = 2
  /\ prevTranscriptLen = 2
  /\ timers = 0

\* C18 (timer stops on close): while the detail view is closed no reveal interval
\* is live.
C18_NoTimerWhileClosed == ~drawerOpen => timers = 0

\* C19 (subscription scope): once the connection is closed it stays closed and no
\* step delivers an event; the unmount leaves the connection closed, and when it
\* was closed already the unmount changes nothing of the store.
C19_SubscriptionScope ==
  [][/\ ~esOpen => (~esOpen' /\ lastEv' \notin SSEEvent /\ (~mounted => mounted' = mounted))
     /\ (mounted /\ ~mounted') =>
          /\ ~esOpen'
          /\ calls' = calls
          /\ selectedCall' = selectedCall]_vars

\* C19 witness: the connection was closed by a transport error (App is still
\* mounted) with calls in the collection.
C19_Witness ==
  /\ ~esOpen
  /\ mounted
  /\ ~loading
  /\ Len(calls) = 2

\* the reveal of the tracked call is complete (there is none when App is unmounted
\* or no call was ever opened)
RevealComplete ==
  (mounted /\ selectedCall # <<>>) => visibleCount = Len(TranscriptOf(selectedCall))

\* C20 (reveal liveness): if from some state on no step changes the call the drawer
\* is given (its id and its transcript with it), then, the interval firing as long
\* as it is live, from some state on visibleCount equals the length of the
\* call's transcript.
C20_RevealLiveness ==
  <>[][selectedCall' = selectedCall]_vars => <>[]RevealComplete

\* C21 (reset soundness): in a step that leaves the tracked call the same and takes
\* visibleCount from above 0 to 0, the transcript before the step is exactly one
\* message of the caller and the transcript after it starts with a message of the
\* ai; so appending to a transcript of one ai message resets nothing.
C21_ResetSoundness ==
  [][(/\ prevCallId # Null
      /\ prevCallId' = prevCallId
      /\ visibleCount > 0
      /\ visibleCount' = 0)
       => /\ Len(TranscriptOf(selectedCall)) = 1
          /\ FirstSender(selectedCall) = "caller"
          /\ FirstSender(selectedCall') = "ai"]_vars

\* C22 (at most one timer): in every state at most one interval of the reveal is
\* live.
C22_AtMostOneTimer == timers <= 1

\* C22 witness: a tick has changed visibleCount below the transcript length, so the
\* interval it came from was cleared and one new interval is live.
C22_Witness ==
  /\ lastEv = [type |-> "tick"]
  /\ Tracking
  /\ visibleCount = 1
  /\ Len(TranscriptOf(selectedCall)) = 2
  /\ timers = 1

\* C23 (selected-call consistency): when a call is selected and the collection has
\* a call of that id, the two have the same transcript, status and aiHandling.
C23_SelectedConsistent ==
  \A i \in 1..Len(calls) :
    (selectedCall # <<>> /\ calls[i].id = selectedCall[1].id) =>
      /\ selectedCall[1].transcript = calls[i].transcript
      /\ selectedCall[1].status = calls[i].status
      /\ selectedCall[1].aiHandling = calls[i].aiHandling

====
